---- MODULE Spec2Model ----
(***************************************************************************)
(* A model of tohaml.py, the HTML to HAML translator.                      *)
(*                                                                         *)
(* A unicode string is a sequence of characters, a character a one-symbol  *)
(* string ("a", "#", "\n"); a non-ASCII character is written by its code   *)
(* point ("U+00E9") and CodePoint gives ord() of every character.          *)
(* A class attribute is a sequence of tokens, each a string.               *)
(***************************************************************************)
EXTENDS Integers, Sequences, FiniteSets

VARIABLES
  pc,      \* "ready", "done", "error", and the walker's "walking"
  op,      \* the function the harness called ("" before the call)
  elem0,   \* the element as the parser gave it, before the call
  elem,    \* the element under render: name, attrs, siblings, contents
  ret,     \* the value the called function returned
  err,     \* the exception that ended the call ("" when none)
  stream,  \* what was written to the output stream, one string per print
  text,    \* the text under render (Text Renderer)
  prev,    \* the text before the last call (Text Renderer)
  arg,     \* indent and full_width of the call (Text Renderer)
  tree,    \* the parsed tree (Tree Walker)
  stack,   \* the frames of print_elem in progress (Tree Walker)
  writer   \* for each string of stream, the tree node whose render wrote it

vars == <<pc, op, elem0, elem, ret, err, stream, text, prev, arg, tree, stack,
          writer>>

(***************************************************************************)
(* Bounds of the model.                                                    *)
(***************************************************************************)
MaxClassLen == 3
MaxTextLen == 3
MaxCalls == 2
MaxNodes == 4
SmallWidth == 5
MaxIndent == 2

(***************************************************************************)
(* Strings.                                                                *)
(***************************************************************************)
Str0 == << >>

RECURSIVE Join(_, _)
\* sep.join(ss)
Join(sep, ss) ==
  IF ss = << >> THEN << >>
  ELSE IF Len(ss) = 1 THEN ss[1]
  ELSE ss[1] \o sep \o Join(sep, Tail(ss))

\* ' ' * n
Spaces(n) == [i \in 1..n |-> " "]

\* s[a:b] of Python, 0-based and end-exclusive, for 0 <= a
Slice(s, a, b) ==
  LET e == IF b > Len(s) THEN Len(s) ELSE b
  IN  IF a >= e THEN << >> ELSE SubSeq(s, a + 1, e)

\* The set of sequences over S of length at most n.
SeqUpTo(S, n) == UNION {[1..k -> S] : k \in 0..n}

(***************************************************************************)
(* RE_COMPILED = re.compile(r'.*(?:#|\.|\{\{|\{%).*') and its match():     *)
(* match anchors at the start and '.' matches anything but a newline, so   *)
(* the reserved substring must lie on the first line of the string (the    *)
(* trailing .* matches the empty string).                                  *)
(***************************************************************************)
ReservedAt(s, i) ==
  \/ s[i] = "#"
  \/ s[i] = "."
  \/ i < Len(s) /\ s[i] = "{" /\ s[i + 1] = "{"
  \/ i < Len(s) /\ s[i] = "{" /\ s[i + 1] = "%"

RE_COMPILED_match(s) ==
  \E i \in 1..Len(s) : ReservedAt(s, i) /\ \A j \in 1..(i - 1) : s[j] # "\n"

(***************************************************************************)
(* The attribute mapping: an ordered mapping, a sequence of entries        *)
(* [key, list, val]; list tells a token list (class) from a plain string.  *)
(***************************************************************************)
KeyId == <<"i", "d">>
KeyClass == <<"c", "l", "a", "s", "s">>
KeyHref == <<"h", "r", "e", "f">>

HasKey(attrs, k) == \E i \in 1..Len(attrs) : attrs[i].key = k
Get(attrs, k) == attrs[CHOOSE i \in 1..Len(attrs) : attrs[i].key = k].val
\* del attrs[k]
Del(attrs, k) == SelectSeq(attrs, LAMBDA e : e.key # k)
\* attrs[k] = v, for a key that is present
Put(attrs, k, v) ==
  [i \in 1..Len(attrs) |->
     IF attrs[i].key = k THEN [attrs[i] EXCEPT !.val = v] ELSE attrs[i]]

RECURSIVE AttrPieces(_)
AttrPieces(attrs) ==
  IF attrs = << >> THEN << >>
  ELSE LET e == Head(attrs)
           piece == e.key \o <<":">> \o <<"\"">>
                    \o (IF e.list THEN Join(<<" ">>, e.val) ELSE e.val)
                    \o <<"\"">>
       IN  <<piece>> \o AttrPieces(Tail(attrs))

attr_str(attrs) ==
  IF attrs = << >> THEN Str0
  ELSE <<"{">> \o Join(<<",">>, AttrPieces(attrs)) \o <<"}">>

(***************************************************************************)
(* get_element_id: returns [tag, attrs].                                   *)
(***************************************************************************)
get_element_id(attrs) ==
  IF HasKey(attrs, KeyId) /\ ~RE_COMPILED_match(Get(attrs, KeyId))
  THEN [tag |-> <<"#">> \o Get(attrs, KeyId), attrs |-> Del(attrs, KeyId)]
  ELSE [tag |-> Str0, attrs |-> attrs]

(***************************************************************************)
(* fold_jinja_tags_in_class on the token list: [err, cls].                 *)
(***************************************************************************)
Markers == {<<"{", "%">>, <<"%", "}">>, <<"{", "{">>, <<"}", "}">>}

InList(x, s) == \E i \in 1..Len(s) : s[i] = x

\* pos, 0-based as in the code, as a set
MarkerPos(cls) == {i \in 0..(Len(cls) - 1) : cls[i + 1] \in Markers}

Max(S) == CHOOSE x \in S : \A y \in S : y <= x

\* cls.insert(begin, joined)
Inserted(cls, begin, joined) ==
  Slice(cls, 0, begin) \o <<joined>> \o Slice(cls, begin, Len(cls))

\* del cls[begin + 1:end + 2]
Deleted(cls, begin, end) ==
  Slice(cls, 0, begin + 1) \o Slice(cls, end + 2, Len(cls))

\* cls.insert(begin, ' '.join(cls[begin:end + 1])); del cls[begin + 1:end + 2]
FoldOne(cls, begin, end) ==
  Deleted(Inserted(cls, begin, Join(<<" ">>, Slice(cls, begin, end + 1))), begin, end)

RECURSIVE FoldPairs(_, _)
\* for end, begin in zip(pos_itr, pos_itr), the positions taken in descending order
FoldPairs(cls, pos) ==
  IF Cardinality(pos) < 2 THEN cls
  ELSE LET end == Max(pos)
           begin == Max(pos \ {end})
       IN  FoldPairs(FoldOne(cls, begin, end), pos \ {end, begin})

fold_jinja_tags_in_class(cls) ==
  IF ~InList(<<"{", "%">>, cls) /\ ~InList(<<"{", "{">>, cls)
  THEN [err |-> "", cls |-> cls]
  ELSE IF Cardinality(MarkerPos(cls)) % 2 # 0
  THEN [err |-> "AssertionError", cls |-> cls]
  ELSE [err |-> "", cls |-> FoldPairs(cls, MarkerPos(cls))]

(***************************************************************************)
(* get_element_class: returns [err, tag, attrs].                           *)
(***************************************************************************)
RECURSIVE DotTag(_)
\* tag += '.' + attr_class, over the filtered tokens
DotTag(toks) ==
  IF toks = << >> THEN Str0 ELSE <<".">> \o Head(toks) \o DotTag(Tail(toks))

\* the shorthand of the folded tokens
PlainTag(cls) ==
  DotTag(SelectSeq(cls, LAMBDA x : Len(x) > 0 /\ ~RE_COMPILED_match(x)))

\* the shorthand without the len(x) > 0 test of the filter
PlainTagKeepsEmpty(cls) ==
  DotTag(SelectSeq(cls, LAMBDA x : ~RE_COMPILED_match(x)))

\* get_element_class after the fold f of attrs['class'], the shorthand being tag
ClassOfFolded(attrs, f, tag) ==
  IF f.err # "" THEN [err |-> f.err, tag |-> Str0, attrs |-> attrs]
  ELSE IF \E i \in 1..Len(f.cls) : RE_COMPILED_match(f.cls[i])
  THEN [err |-> "", tag |-> tag,
        attrs |-> Put(attrs, KeyClass, SelectSeq(f.cls, RE_COMPILED_match))]
  ELSE [err |-> "", tag |-> tag, attrs |-> Del(attrs, KeyClass)]

\* the fold of attrs['class'], then the rest of get_element_class
FoldedClass(attrs, f) == ClassOfFolded(attrs, f, PlainTag(f.cls))

FoldedClassKeepsEmpty(attrs, f) == ClassOfFolded(attrs, f, PlainTagKeepsEmpty(f.cls))

\* get_element_class whose filter lets the empty tokens into the shorthand
get_element_class_keeps_empty(attrs) ==
  IF ~HasKey(attrs, KeyClass) THEN [err |-> "", tag |-> Str0, attrs |-> attrs]
  ELSE FoldedClassKeepsEmpty(attrs, fold_jinja_tags_in_class(Get(attrs, KeyClass)))

get_element_class(attrs) ==
  IF ~HasKey(attrs, KeyClass) THEN [err |-> "", tag |-> Str0, attrs |-> attrs]
  ELSE FoldedClass(attrs, fold_jinja_tags_in_class(Get(attrs, KeyClass)))

(***************************************************************************)
(* A sibling or child as the adjacency checks read it: kind "none" (None), *)
(* "tag" (a bs4 Tag) or "text" (a NavigableString or Comment) and its      *)
(* text.  unicode(None) is 'None'.                                         *)
(***************************************************************************)
NoneNode == [kind |-> "none", text |-> Str0]
TagNode == [kind |-> "tag", text |-> Str0]
TextNode(t) == [kind |-> "text", text |-> t]

is_tag(n) == n.kind = "tag"

unicode(n) == IF n.kind = "none" THEN <<"N", "o", "n", "e">> ELSE n.text

\* is_tag(n) or unicode(n)[-1] != ' ', an IndexError on an empty string
LastNoSpace(n) ==
  IF is_tag(n) THEN [err |-> "", val |-> TRUE]
  ELSE IF unicode(n) = << >> THEN [err |-> "IndexError", val |-> FALSE]
  ELSE [err |-> "", val |-> unicode(n)[Len(unicode(n))] # " "]

\* is_tag(n) or unicode(n)[0] != ' '
FirstNoSpace(n) ==
  IF is_tag(n) THEN [err |-> "", val |-> TRUE]
  ELSE IF unicode(n) = << >> THEN [err |-> "IndexError", val |-> FALSE]
  ELSE [err |-> "", val |-> unicode(n)[1] # " "]

\* result = a and b, the exception of a first
BothNoSpace(a, b) ==
  IF a.err # "" THEN a
  ELSE IF b.err # "" THEN b
  ELSE [err |-> "", val |-> a.val /\ b.val]

is_outer_nospace(e) == BothNoSpace(LastNoSpace(e.prev), FirstNoSpace(e.next))

is_inner_nospace(e) ==
  IF Len(e.contents) = 0 THEN [err |-> "", val |-> TRUE]
  ELSE BothNoSpace(FirstNoSpace(e.contents[1]),
                   LastNoSpace(e.contents[Len(e.contents)]))

(***************************************************************************)
(* print_tag: [err, attrs, out]; out holds the string print wrote, if any. *)
(***************************************************************************)
NameDiv == <<"d", "i", "v">>
NameStyle == <<"s", "t", "y", "l", "e">>
NameA == <<"a">>
NameSpan == <<"s", "p", "a", "n">>
NameStrong == <<"s", "t", "r", "o", "n", "g">>
NameEm == <<"e", "m">>
NameH1 == <<"h", "1">>
NameP == <<"p">>

InlineNames == {NameA, NameSpan, NameStrong, NameEm}

\* '%' + name + tag, or the shorthand alone for a div that has one
TagName(name, suffix) ==
  IF name = NameDiv
  THEN (IF suffix = Str0 THEN <<"%">> \o name ELSE suffix)
  ELSE <<"%">> \o name \o suffix

\* tag = get_element_id(attrs) + get_element_class(attrs), i and c their results
TagBodyWith(e, i, c) ==
  [err |-> c.err, tag |-> TagName(e.name, i.tag \o c.tag) \o attr_str(c.attrs),
   attrs |-> c.attrs]

TagBodyOf(e, i) == TagBodyWith(e, i, get_element_class(i.attrs))

\* the tag string before the adjacency markers: [err, tag, attrs]
TagBody(e) == TagBodyOf(e, get_element_id(e.attrs))

\* the line of an inline element, o and n the results of the adjacency checks
PrintInline(indent_str, b, o, n) ==
  IF o.err # "" THEN [err |-> o.err, attrs |-> b.attrs, out |-> << >>]
  ELSE IF n.err # "" THEN [err |-> n.err, attrs |-> b.attrs, out |-> << >>]
  ELSE [err |-> "", attrs |-> b.attrs,
        out |-> <<indent_str \o b.tag
                  \o (IF o.val THEN <<">">> ELSE Str0)
                  \o (IF n.val THEN <<"<">> ELSE Str0)
                  \o <<"\n">>>>]

PrintTagBody(indent_str, e, b) ==
  IF b.err # "" THEN [err |-> b.err, attrs |-> e.attrs, out |-> << >>]
  ELSE IF e.name \notin InlineNames
  THEN [err |-> "", attrs |-> b.attrs, out |-> <<indent_str \o b.tag \o <<"\n">>>>]
  ELSE PrintInline(indent_str, b, is_outer_nospace(e), is_inner_nospace(e))

print_tag(indent_str, e) ==
  IF e.name = NameStyle
  THEN [err |-> "", attrs |-> e.attrs,
        out |-> <<indent_str \o <<":", "c", "s", "s">> \o <<"\n">>>>]
  ELSE PrintTagBody(indent_str, e, TagBody(e))

(***************************************************************************)
(* The inputs of the attribute classifier and the tag renderer.            *)
(***************************************************************************)
Tokens ==
  { Str0, <<"a">>, <<"b", "#">>, <<"{", "%">>, <<"%", "}">>, <<"{", "{">>,
    <<"}", "}">>, <<"{", "%", "c">>, <<"d", "%", "}">> }

ClassLists == SeqUpTo(Tokens, MaxClassLen)

IdValues == { <<"i">>, <<"#", "i">>, <<"x", "\n", ".", "y">>, Str0 }

IdEntry(v) == [key |-> KeyId, list |-> FALSE, val |-> v]
ClassEntry(c) == [key |-> KeyClass, list |-> TRUE, val |-> c]
HrefEntry == [key |-> KeyHref, list |-> FALSE, val |-> <<"u">>]

\* attribute mappings in the orders a parse can give
AttrInputs ==
  {<< >>, <<HrefEntry>>}
  \cup {<<IdEntry(v)>> : v \in IdValues}
  \cup {<<ClassEntry(c)>> : c \in ClassLists}
  \cup {<<ClassEntry(c), HrefEntry>> : c \in SeqUpTo(Tokens, MaxClassLen - 1)}
  \cup {<<IdEntry(v), ClassEntry(c)>> :
          v \in IdValues, c \in SeqUpTo(Tokens, MaxClassLen - 1)}
  \cup {<<HrefEntry, ClassEntry(c), IdEntry(v)>> :
          v \in {<<"i">>, <<"#", "i">>}, c \in SeqUpTo({<<"a">>, <<"b", "#">>}, 2)}

SiblingInputs ==
  { NoneNode, TagNode, TextNode(<<"x">>), TextNode(<<" ">>), TextNode(<<"\n">>),
    TextNode(<<"x", "\t">>), TextNode(<<"\t", "x">>), TextNode(Str0) }

ContentInputs ==
  { << >>, <<TextNode(<<"x">>)>>, <<TextNode(<<" ", "x">>)>>,
    <<TagNode, TextNode(<<"x", " ">>)>> }

ElemInputs ==
  {[name |-> n, attrs |-> a, prev |-> NoneNode, next |-> NoneNode, contents |-> << >>] :
     n \in {NameDiv, NameH1, NameStyle}, a \in AttrInputs}
  \cup
  {[name |-> n, attrs |-> a, prev |-> p, next |-> x, contents |-> c] :
     n \in {NameSpan, NameEm, NameP},
     a \in {<< >>, <<ClassEntry(<<<<"a">>>>)>>},
     p \in SiblingInputs, x \in SiblingInputs, c \in ContentInputs}

NoElem == [name |-> Str0, attrs |-> << >>, prev |-> NoneNode, next |-> NoneNode,
           contents |-> << >>]
NoArg == [indent |-> 0, full_width |-> 0]
NoTree == << >>

(***************************************************************************)
(* SpecTag: one element, and one call of a function of the attribute       *)
(* classifier or of print_tag on it.                                       *)
(***************************************************************************)
InitTag ==
  /\ pc = "ready" /\ op = "" /\ elem0 \in ElemInputs /\ elem = elem0
  /\ ret = Str0 /\ err = "" /\ stream = << >>
  /\ text = Str0 /\ prev = Str0 /\ arg = NoArg /\ tree = NoTree /\ stack = << >>
  /\ writer = << >>

CallGetElementId ==
  /\ pc = "ready"
  /\ \E r \in {get_element_id(elem.attrs)} :
       /\ elem' = [elem EXCEPT !.attrs = r.attrs]
       /\ ret' = r.tag
  /\ pc' = "done" /\ op' = "get_element_id"
  /\ UNCHANGED <<elem0, err, stream, text, prev, arg, tree, stack, writer>>

CallGetElementClass ==
  /\ pc = "ready"
  /\ \E r \in {get_element_class(elem.attrs)} :
       /\ elem' = [elem EXCEPT !.attrs = r.attrs]
       /\ ret' = r.tag
       /\ err' = r.err
       /\ pc' = IF r.err = "" THEN "done" ELSE "error"
  /\ op' = "get_element_class"
  /\ UNCHANGED <<elem0, stream, text, prev, arg, tree, stack, writer>>

CallFold ==
  /\ pc = "ready"
  /\ HasKey(elem.attrs, KeyClass)
  /\ \E r \in {fold_jinja_tags_in_class(Get(elem.attrs, KeyClass))} :
       /\ elem' = [elem EXCEPT !.attrs = Put(elem.attrs, KeyClass, r.cls)]
       /\ err' = r.err
       /\ pc' = IF r.err = "" THEN "done" ELSE "error"
  /\ op' = "fold_jinja_tags_in_class"
  /\ UNCHANGED <<elem0, ret, stream, text, prev, arg, tree, stack, writer>>

CallPrintTag ==
  /\ pc = "ready"
  /\ \E r \in {print_tag(Str0, elem)} :
       /\ elem' = [elem EXCEPT !.attrs = r.attrs]
       /\ stream' = stream \o r.out
       /\ err' = r.err
       /\ pc' = IF r.err = "" THEN "done" ELSE "error"
  /\ op' = "print_tag"
  /\ UNCHANGED <<elem0, ret, text, prev, arg, tree, stack, writer>>

NextTag == CallGetElementId \/ CallGetElementClass \/ CallFold \/ CallPrintTag

SpecTag == InitTag /\ [][NextTag]_vars

(***************************************************************************)
(* The properties of the attribute classifier and the tag renderer, in     *)
(* their own words: a reserved substring is '#', '.', '{{' or '{%'         *)
(* anywhere in the string.                                                 *)
(***************************************************************************)
ContainsReserved(s) ==
  \E i \in 1..Len(s) :
    \/ s[i] \in {"#", "."}
    \/ i < Len(s) /\ SubSeq(s, i, i + 1) \in {<<"{", "{">>, <<"{", "%">>}

IsPlainToken(t) == Len(t) > 0 /\ ~ContainsReserved(t)

RECURSIVE ShorthandOf(_)
\* '.' + token over the plain tokens, in order
ShorthandOf(toks) ==
  IF toks = << >> THEN << >>
  ELSE (IF IsPlainToken(Head(toks)) THEN <<".">> \o Head(toks) ELSE << >>)
       \o ShorthandOf(Tail(toks))

\* the partition of the token list toks that a finished get_element_class shows
PartitionOf(toks) ==
  /\ ret = ShorthandOf(toks)
  /\ IF \E i \in 1..Len(toks) : ContainsReserved(toks[i])
     THEN /\ HasKey(elem.attrs, KeyClass)
          /\ Get(elem.attrs, KeyClass) = SelectSeq(toks, ContainsReserved)
          /\ Len(elem.attrs) = Len(elem0.attrs)
          /\ \A i \in 1..Len(elem.attrs) : elem.attrs[i].key = elem0.attrs[i].key
     ELSE ~HasKey(elem.attrs, KeyClass)
  /\ Len(SelectSeq(toks, IsPlainToken)) + Len(SelectSeq(toks, ContainsReserved))
       = Len(SelectSeq(toks, LAMBDA t : Len(t) > 0))
  /\ Del(elem.attrs, KeyClass) = Del(elem0.attrs, KeyClass)

ClassCalled ==
  /\ op = "get_element_class"
  /\ pc \in {"done", "error"}
  /\ HasKey(elem0.attrs, KeyClass)

\* C1 as stated: get_element_class partitions the class tokens of its input: the
\* shorthand is '.'+token over the non-empty tokens with no reserved substring, the
\* class entry keeps the reserved tokens or is deleted, nothing else changes.
C1_AsStated ==
  ClassCalled /\ pc = "done" => PartitionOf(Get(elem0.attrs, KeyClass))

\* C1, amended: get_element_class partitions the class tokens as they are after
\* fold_jinja_tags_in_class has folded them: the shorthand is '.'+token over the
\* non-empty folded tokens with no reserved substring, in order; the class entry
\* holds the reserved folded tokens in order, or is deleted when there is none; no
\* other key changes.  When the fold fails on an odd marker count the call raises
\* and the mapping is left as it was.
C1_PartitionAfterFold ==
  ClassCalled =>
    LET f == fold_jinja_tags_in_class(Get(elem0.attrs, KeyClass))
    IN  IF f.err # ""
        THEN pc = "error" /\ elem.attrs = elem0.attrs
        ELSE pc = "done" /\ PartitionOf(f.cls)

\* a call that folded a fragment and split the list: a shorthand and a residue
C1_Witness ==
  /\ ClassCalled /\ pc = "done"
  /\ fold_jinja_tags_in_class(Get(elem0.attrs, KeyClass)).cls # Get(elem0.attrs, KeyClass)
  /\ ret # Str0
  /\ HasKey(elem.attrs, KeyClass)

(***************************************************************************)
(* print_tag's line, read back from the stream.                            *)
(***************************************************************************)
TagPrinted == op = "print_tag" /\ pc = "done" /\ elem0.name # NameStyle

\* the line without the newline print adds
Line == SubSeq(stream[1], 1, Len(stream[1]) - 1)

StartsWith(s, p) == Len(p) <= Len(s) /\ SubSeq(s, 1, Len(p)) = p

IdOf(e) == IF HasKey(e.attrs, KeyId) THEN Get(e.attrs, KeyId) ELSE Str0

\* C2: the line of an element other than style is [%name] id-shorthand
\* class-shorthand attribute-map; %name is left out exactly for a div with a
\* shorthand; an id with a reserved character stays in the map unchanged and is
\* not in the shorthand, a clean id is '#'+value in the shorthand and leaves the map.
C2_TagLine ==
  TagPrinted =>
    LET hasId == HasKey(elem0.attrs, KeyId)
        clean == hasId /\ ~ContainsReserved(IdOf(elem0))
        idShort == IF clean THEN <<"#">> \o IdOf(elem0) ELSE Str0
        rest == IF clean THEN Del(elem0.attrs, KeyId) ELSE elem0.attrs
        suffix == idShort \o get_element_class(rest).tag
        head == IF elem0.name = NameDiv /\ suffix # Str0
                THEN suffix
                ELSE <<"%">> \o elem0.name \o suffix
    IN  /\ Len(stream) = 1
        /\ StartsWith(Line, head \o attr_str(elem.attrs))
        /\ hasId /\ ~clean =>
             HasKey(elem.attrs, KeyId) /\ Get(elem.attrs, KeyId) = IdOf(elem0)
        /\ clean => ~HasKey(elem.attrs, KeyId)
        /\ Del(Del(elem.attrs, KeyId), KeyClass) = Del(Del(elem0.attrs, KeyId), KeyClass)

\* the number of class tokens of the parsed element that are bare markers
MarkerCount(e) ==
  IF HasKey(e.attrs, KeyClass)
  THEN Cardinality({i \in 1..Len(Get(e.attrs, KeyClass)) :
                      Get(e.attrs, KeyClass)[i] \in
                        {<<"{", "%">>, <<"%", "}">>, <<"{", "{">>, <<"}", "}">>}})
  ELSE 0

\* C4: an element whose class list holds an odd number of marker tokens is not
\* rendered: print_tag raises and writes no line.
C4_OddMarkersAbort ==
  op = "print_tag" /\ pc \in {"done", "error"} /\ MarkerCount(elem0) % 2 = 1
    => pc = "error" /\ stream = << >>

Whitespace == {" ", "\t", "\n", "\r"}

EndsInWhitespace(n) ==
  n.kind = "text" /\ n.text # << >> /\ n.text[Len(n.text)] \in Whitespace
StartsWithWhitespace(n) ==
  n.kind = "text" /\ n.text # << >> /\ n.text[1] \in Whitespace

\* C7: the line of an inline element (a, span, strong, em) has '>' exactly when
\* its previous sibling does not end, and its next sibling does not start, with a
\* whitespace character (space, tab, newline).
C7_OuterMarker ==
  TagPrinted /\ elem0.name \in {NameA, NameSpan, NameStrong, NameEm} =>
    (InList(">", Line) <=>
       ~EndsInWhitespace(elem0.prev) /\ ~StartsWithWhitespace(elem0.next))

HasMarker(s) ==
  \E i \in 1..(Len(s) - 1) :
    SubSeq(s, i, i + 1) \in {<<"{", "%">>, <<"%", "}">>, <<"{", "{">>, <<"}", "}">>}

IsOpener(s) == s \in {<<"{", "%">>, <<"{", "{">>}
IsCloser(s) == s \in {<<"%", "}">>, <<"}", "}">>}

\* a whole fragment: from an opener to a closer
IsFragment(t) ==
  /\ Len(t) >= 4
  /\ IsOpener(SubSeq(t, 1, 2))
  /\ IsCloser(SubSeq(t, Len(t) - 1, Len(t)))

\* C9: after fold_jinja_tags_in_class every token is either free of markers or a
\* whole fragment from its opener to its closer, none is a bare marker; and no
\* piece of a fragment is in the '.token' shorthand of get_element_class, also
\* for markers written without surrounding whitespace.
C9_FragmentsFolded ==
  /\ op = "fold_jinja_tags_in_class" /\ pc = "done" =>
       \A i \in 1..Len(Get(elem.attrs, KeyClass)) :
         LET t == Get(elem.attrs, KeyClass)[i]
         IN  HasMarker(t) => IsFragment(t)
  /\ op = "get_element_class" /\ pc = "done" => ~HasMarker(ret)

(***************************************************************************)
(* Text Renderer.  Characters and ord(): the non-ASCII characters of the   *)
(* model are named by code point; every other character is ASCII.          *)
(***************************************************************************)
NonAscii ==
  [c \in {"U+0080", "U+0085", "U+00A0", "U+00E9", "U+0100", "U+0416", "U+201C",
          "U+2026"} |->
     CASE c = "U+0080" -> 128
       [] c = "U+0085" -> 133
       [] c = "U+00A0" -> 160
       [] c = "U+00E9" -> 233
       [] c = "U+0100" -> 256
       [] c = "U+0416" -> 1046
       [] c = "U+201C" -> 8220
       [] c = "U+2026" -> 8230]

AsciiMax == 127

\* ord(ch); an ASCII character is told from the others only by being below 128
CodePoint(ch) == IF ch \in DOMAIN NonAscii THEN NonAscii[ch] ELSE AsciiMax

\* htmlentitydefs.codepoint2name, on the characters of the model
codepoint2name ==
  [n \in {160, 233, 8220, 8230} |->
     CASE n = 160 -> <<"n", "b", "s", "p">>
       [] n = 233 -> <<"e", "a", "c", "u", "t", "e">>
       [] n = 8220 -> <<"l", "d", "q", "u", "o">>
       [] n = 8230 -> <<"h", "e", "l", "l", "i", "p">>]

Digit(d) == SubSeq(<<"0", "1", "2", "3", "4", "5", "6", "7", "8", "9">>, d + 1, d + 1)

RECURSIVE Decimal(_)
\* '{0}'.format(n) for n >= 0
Decimal(n) == IF n < 10 THEN Digit(n) ELSE Decimal(n \div 10) \o Digit(n % 10)

\* the line boundaries of unicode.splitlines() among the characters of the model
LineBreaks == {"\n", "\r", "U+0085"}

\* the characters unicode.split(), lstrip() and strip() take for whitespace
SpaceChars == {" ", "\t", "\n", "\r", "U+0085", "U+00A0"}

RECURSIVE SplitLinesFrom(_, _, _, _)
SplitLinesFrom(s, i, cur, acc) ==
  IF i > Len(s) THEN (IF cur # << >> THEN Append(acc, cur) ELSE acc)
  ELSE IF s[i] \in LineBreaks
  THEN LET step == IF s[i] = "\r" /\ i < Len(s) /\ s[i + 1] = "\n" THEN 2 ELSE 1
       IN  SplitLinesFrom(s, i + step, << >>, Append(acc, cur))
  ELSE SplitLinesFrom(s, i + 1, Append(cur, s[i]), acc)

\* text.splitlines()
splitlines(s) == SplitLinesFrom(s, 1, << >>, << >>)

RECURSIVE SplitFrom(_, _, _, _)
SplitFrom(s, i, cur, acc) ==
  IF i > Len(s) THEN (IF cur # << >> THEN Append(acc, cur) ELSE acc)
  ELSE IF s[i] \in SpaceChars
  THEN SplitFrom(s, i + 1, << >>, IF cur # << >> THEN Append(acc, cur) ELSE acc)
  ELSE SplitFrom(s, i + 1, Append(cur, s[i]), acc)

\* line.split()
split(s) == SplitFrom(s, 1, << >>, << >>)

\* len(line) - len(line.lstrip())
LeadingSpace(s) ==
  IF \A i \in 1..Len(s) : s[i] \in SpaceChars THEN Len(s)
  ELSE (CHOOSE i \in 1..Len(s) :
          s[i] \notin SpaceChars /\ \A j \in 1..(i - 1) : s[j] \in SpaceChars) - 1

\* s.strip() is not empty
StripNonEmpty(s) == \E i \in 1..Len(s) : s[i] \notin SpaceChars

(***************************************************************************)
(* replace_reserved_first_char                                             *)
(***************************************************************************)
ReservedPairs ==
  << <<"-", <<"&", "m", "i", "n", "u", "s", ";">>>>,
     <<"%", <<"&", "#", "3", "7", ";">>>>,
     <<"#", <<"%", "#", "3", "5">>>> >>

\* if text[i_first] == char: text = text[:i_first] + entity + text[i_first+1:]
ReplaceAt(t, f, char, entity) ==
  IF t[f] = char
  THEN SubSeq(t, 1, f - 1) \o entity \o SubSeq(t, f + 1, Len(t))
  ELSE t

RECURSIVE ReplacePairs(_, _, _)
\* for char, entity in pairs
ReplacePairs(t, f, pairs) ==
  IF pairs = << >> THEN t
  ELSE ReplacePairs(ReplaceAt(t, f, Head(pairs)[1], Head(pairs)[2]), f, Tail(pairs))

replace_reserved_first_char(t) ==
  IF \A i \in 1..Len(t) : t[i] = " " THEN t
  ELSE LET f == CHOOSE i \in 1..Len(t) : t[i] # " " /\ \A j \in 1..(i - 1) : t[j] = " "
       IN  ReplacePairs(t, f, ReservedPairs)

(***************************************************************************)
(* clean_quotes, skip_unicode_to_entities, unicode_to_entities             *)
(***************************************************************************)
Entity(name) == <<"&">> \o name \o <<";">>

clean_quotes(html) ==
  IF html = Entity(<<"l", "d", "q", "u", "o">>) \/ html = Entity(<<"r", "d", "q", "u", "o">>)
  THEN <<"\"">>
  ELSE IF html \in {Entity(<<"l", "s", "q", "u", "o">>), Entity(<<"r", "s", "q", "u", "o">>),
                    Entity(<<"s", "b", "q", "u", "o">>), Entity(<<"p", "r", "i", "m", "e">>)}
  THEN <<"'">>
  ELSE IF html = Entity(<<"h", "e", "l", "l", "i", "p">>)
  THEN <<".", ".", ".">>
  ELSE html

skip_unicode_to_entities(code) ==
  ~ \/ (code >= 1024 /\ code <= 1279)
    \/ (code >= 1280 /\ code <= 1327)
    \/ (code >= 11744 /\ code <= 11775)
    \/ (code >= 42560 /\ code <= 42655)
    \/ code = 7467
    \/ code = 7544

\* what one character of a line becomes
EntityOf(ch) ==
  LET codepoint == CodePoint(ch)
  IN  IF codepoint > 128 /\ skip_unicode_to_entities(codepoint)
      THEN IF codepoint \in DOMAIN codepoint2name
           THEN clean_quotes(Entity(codepoint2name[codepoint]))
           ELSE <<"&", "#">> \o Decimal(codepoint) \o <<";">>
      ELSE <<ch>>

RECURSIVE EntityLine(_)
EntityLine(line) ==
  IF line = << >> THEN << >> ELSE EntityOf(Head(line)) \o EntityLine(Tail(line))

RECURSIVE EntityLines(_)
EntityLines(lines) ==
  IF lines = << >> THEN << >>
  ELSE <<EntityLine(Head(lines))>> \o EntityLines(Tail(lines))

unicode_to_entities(t) == Join(<<"\n">>, EntityLines(splitlines(t)))

(***************************************************************************)
(* indented_string                                                         *)
(***************************************************************************)
\* add_word
AddWord(print_line, word) ==
  IF print_line # << >> THEN print_line \o <<" ">> \o word ELSE word

RECURSIVE WrapWords(_, _, _, _, _)
RECURSIVE WrapWord(_, _, _, _, _, _)
\* one turn of the loop over the words, add_word in hand
WrapWord(words, print_line, result, indent, full_width, add_word) ==
  IF Len(add_word) < full_width
  THEN WrapWords(Tail(words), add_word, result, indent, full_width)
  ELSE WrapWords(Tail(words), Head(words),
                 result \o Spaces(indent) \o print_line \o <<"\n">>,
                 indent, full_width)

\* the loop over the words of one line: [result, print_line]
WrapWords(words, print_line, result, indent, full_width) ==
  IF words = << >> THEN [result |-> result, print_line |-> print_line]
  ELSE WrapWord(words, print_line, result, indent, full_width,
                AddWord(print_line, Head(words)))

\* if print_line: result += ' '*indent + print_line + '\n'
LineDone(w, indent) ==
  IF w.print_line # << >>
  THEN w.result \o Spaces(indent) \o w.print_line \o <<"\n">>
  ELSE w.result

RECURSIVE WrapLines(_, _, _, _)
WrapLines(lines, result, indent, full_width) ==
  IF lines = << >> THEN result
  ELSE WrapLines(Tail(lines),
                 LineDone(WrapWords(split(Head(lines)),
                                    Spaces(LeadingSpace(Head(lines))),
                                    result, indent, full_width),
                          indent),
                 indent, full_width)

indented_string(indent, t, full_width) ==
  WrapLines(splitlines(t), << >>, indent, full_width)

DefaultFullWidth == 80

(***************************************************************************)
(* The text branch of print_elem: what it writes for a leaf at indent.     *)
(***************************************************************************)
\* if print_string.strip(): print(print_string, file=stream, end='')
Suppress(print_string) ==
  IF StripNonEmpty(print_string) THEN <<print_string>> ELSE << >>

PrintLeaf(indent, raw_string) ==
  Suppress(indented_string(indent,
                           unicode_to_entities(replace_reserved_first_char(raw_string)),
                           DefaultFullWidth))

(***************************************************************************)
(* SpecText: one raw text; a function of the text renderer is applied to   *)
(* it, and again to its own result, up to MaxCalls times.                  *)
(***************************************************************************)
TextChars ==
  { "a", " ", "\n", "\t", "\r", "-", "%", "#", "U+0080", "U+0085", "U+00A0",
    "U+00E9", "U+0100", "U+0416", "U+201C", "U+2026" }

TextInputs == SeqUpTo(TextChars, MaxTextLen)

InitText ==
  /\ pc = "ready" /\ op = "" /\ elem0 = NoElem /\ elem = NoElem
  /\ ret = Str0 /\ err = "" /\ stream = << >>
  /\ text \in TextInputs /\ prev = text
  /\ arg = [indent |-> 0, full_width |-> 0, calls |-> 0]
  /\ tree = NoTree /\ stack = << >> /\ writer = << >>

\* the harness calls f first, or once more with the same arguments
MayCall(f, a) ==
  \/ pc = "ready"
  \/ /\ pc = "done" /\ op = f /\ arg.calls < MaxCalls
     /\ arg.indent = a.indent /\ arg.full_width = a.full_width

Called(f, a, result) ==
  /\ MayCall(f, a)
  /\ pc' = "done" /\ op' = f
  /\ prev' = text /\ text' = result
  /\ arg' = [indent |-> a.indent, full_width |-> a.full_width,
             calls |-> arg.calls + 1]
  /\ UNCHANGED <<elem0, elem, ret, err, stream, tree, stack, writer>>

CallReplaceReservedFirstChar ==
  Called("replace_reserved_first_char", NoArg, replace_reserved_first_char(text))

CallUnicodeToEntities ==
  Called("unicode_to_entities", NoArg, unicode_to_entities(text))

CallIndentedString ==
  \E i \in 0..MaxIndent, w \in {SmallWidth, DefaultFullWidth} :
    Called("indented_string", [indent |-> i, full_width |-> w],
           indented_string(i, text, w))

\* print_elem on a text or comment leaf
CallPrintLeaf ==
  /\ pc = "ready"
  /\ \E i \in 0..MaxIndent :
       /\ stream' = stream \o PrintLeaf(i, text)
       /\ arg' = [indent |-> i, full_width |-> DefaultFullWidth, calls |-> 1]
  /\ pc' = "done" /\ op' = "print_elem"
  /\ UNCHANGED <<elem0, elem, ret, err, text, prev, tree, stack, writer>>

NextText ==
  \/ CallReplaceReservedFirstChar
  \/ CallUnicodeToEntities
  \/ CallIndentedString
  \/ CallPrintLeaf

SpecText == InitText /\ [][NextText]_vars

(***************************************************************************)
(* Tree Walker.  A parsed tree: nodes 1..n, numbered in document order,    *)
(* node 1 the root; parent[i] is the parent of node i (0 for the root) and *)
(* label[i] what the node is: an element (tag, with its name and           *)
(* attributes) or a text leaf.                                             *)
(***************************************************************************)
ElementLabel(name, attrs) == [tag |-> TRUE, name |-> name, attrs |-> attrs, text |-> Str0]
TextLabel(t) == [tag |-> FALSE, name |-> Str0, attrs |-> << >>, text |-> t]

Labels ==
  { ElementLabel(NameDiv, <<ClassEntry(<<<<"a">>>>)>>),
    ElementLabel(NameSpan, << >>),
    ElementLabel(NameStyle, << >>),
    ElementLabel(NameP, <<ClassEntry(<<<<"{", "%">>, <<"a">>>>)>>),
    TextLabel(<<" ", "-", "\n", "x", " ">>) }

RECURSIVE Ancestors(_, _)
\* the proper ancestors of node i under the parent function
Ancestors(parent, i) ==
  IF parent[i] = 0 THEN {} ELSE {parent[i]} \cup Ancestors(parent, parent[i])

\* node i, the next in document order, hangs under node i - 1 or an ancestor of it
DocumentOrder(n, parent) ==
  /\ parent[1] = 0
  /\ \A i \in 2..n : parent[i] = i - 1 \/ parent[i] \in Ancestors(parent, i - 1)

\* the parent functions of the trees of n nodes
ParentsOf(n) == {q \in [1..n -> 0..(n - 1)] : DocumentOrder(n, q)}

\* the root is an element (soup.html) and only an element has children
WellFormed(t) ==
  /\ t.label[1].tag
  /\ \A i \in 2..t.n : t.label[t.parent[i]].tag

\* elem.contents, as node numbers in order
RECURSIVE ChildrenFrom(_, _, _)
ChildrenFrom(t, p, i) ==
  IF i > t.n THEN << >>
  ELSE (IF t.parent[i] = p THEN <<i>> ELSE << >>) \o ChildrenFrom(t, p, i + 1)

Children(t, p) == ChildrenFrom(t, p, 1)

Summary(t, i) == IF t.label[i].tag THEN TagNode ELSE TextNode(t.label[i].text)

RECURSIVE Summaries(_, _)
Summaries(t, ns) ==
  IF ns = << >> THEN << >> ELSE <<Summary(t, Head(ns))>> \o Summaries(t, Tail(ns))

IndexOf(seq, x) == CHOOSE k \in 1..Len(seq) : seq[k] = x

\* the sibling before node i among the children sib of its parent
Before(t, sib, k) == IF k = 1 THEN NoneNode ELSE Summary(t, sib[k - 1])

\* the sibling after it
After(t, sib, k) == IF k = Len(sib) THEN NoneNode ELSE Summary(t, sib[k + 1])

SiblingsOf(t, i) == Children(t, t.parent[i])

\* previous_sibling and next_sibling
PrevSibling(t, i) ==
  IF t.parent[i] = 0 THEN NoneNode
  ELSE Before(t, SiblingsOf(t, i), IndexOf(SiblingsOf(t, i), i))

NextSibling(t, i) ==
  IF t.parent[i] = 0 THEN NoneNode
  ELSE After(t, SiblingsOf(t, i), IndexOf(SiblingsOf(t, i), i))

\* the element of node i as print_tag reads it
ElemOf(t, i) ==
  [name |-> t.label[i].name, attrs |-> t.label[i].attrs,
   prev |-> PrevSibling(t, i), next |-> NextSibling(t, i),
   contents |-> Summaries(t, Children(t, i))]

\* the indent print_elem passes to a child
ChildIndentOne(indent) == indent + 1

ChildIndent(indent) == indent + 2

(***************************************************************************)
(* SpecWalk: print_haml's print_elem(0, soup.html, out_stream), one frame  *)
(* of the recursion per entry of stack: [node, indent, i], i the next      *)
(* child of the loop over elem.contents.                                   *)
(***************************************************************************)
InitWalk ==
  /\ pc = "ready" /\ op = "" /\ elem0 = NoElem /\ elem = NoElem
  /\ ret = Str0 /\ err = "" /\ stream = << >>
  /\ text = Str0 /\ prev = Str0 /\ arg = NoArg
  /\ \E n \in 1..MaxNodes :
       \E par \in ParentsOf(n), lab \in [1..n -> Labels] :
         /\ WellFormed([n |-> n, parent |-> par, label |-> lab])
         /\ tree = [n |-> n, parent |-> par, label |-> lab]
  /\ stack = << >> /\ writer = << >>

\* print_elem(indent, node): the render of the node, and its frame
Enter(n, indent, below) ==
  IF tree.label[n].tag
  THEN \E r \in {print_tag(Spaces(indent), ElemOf(tree, n))} :
         /\ stream' = stream \o r.out
         /\ writer' = writer \o [k \in 1..Len(r.out) |-> n]
         /\ err' = r.err
         /\ IF r.err # ""
            THEN pc' = "error" /\ stack' = << >>
            ELSE pc' = "walking"
                 /\ stack' = Append(below, [node |-> n, indent |-> indent, i |-> 1])
  ELSE \E out \in {PrintLeaf(indent, tree.label[n].text)} :
         /\ stream' = stream \o out
         /\ writer' = writer \o [k \in 1..Len(out) |-> n]
         /\ err' = ""
         /\ pc' = "walking"
         /\ stack' = Append(below, [node |-> n, indent |-> indent, i |-> 1])

Start ==
  /\ pc = "ready"
  /\ Enter(1, 0, << >>)
  /\ op' = "print_elem"
  /\ UNCHANGED <<elem0, elem, ret, text, prev, arg, tree>>

\* for child_elem in elem.contents: print_elem(indent+2, child_elem, stream)
Descend ==
  /\ pc = "walking"
  /\ LET f == stack[Len(stack)]
         kids == Children(tree, f.node)
     IN  /\ tree.label[f.node].tag
         /\ f.i <= Len(kids)
         /\ Enter(kids[f.i], ChildIndent(f.indent),
                  [stack EXCEPT ![Len(stack)].i = f.i + 1])
  /\ UNCHANGED <<op, elem0, elem, ret, text, prev, arg, tree>>

\* print_elem returns: the loop is over, or the node is a leaf
Return ==
  /\ pc = "walking"
  /\ LET f == stack[Len(stack)]
     IN  ~tree.label[f.node].tag \/ f.i > Len(Children(tree, f.node))
  /\ stack' = SubSeq(stack, 1, Len(stack) - 1)
  /\ pc' = IF Len(stack) = 1 THEN "done" ELSE "walking"
  /\ UNCHANGED <<op, elem0, elem, ret, err, stream, text, prev, arg, tree, writer>>

NextWalk == Start \/ Descend \/ Return

SpecWalk == InitWalk /\ [][NextWalk]_vars

(***************************************************************************)
(* The properties of the text renderer.                                    *)
(***************************************************************************)
RECURSIVE PhysicalLinesFrom(_, _, _, _)
PhysicalLinesFrom(s, i, cur, acc) ==
  IF i > Len(s) THEN (IF cur # << >> THEN Append(acc, cur) ELSE acc)
  ELSE IF s[i] = "\n" THEN PhysicalLinesFrom(s, i + 1, << >>, Append(acc, cur))
  ELSE PhysicalLinesFrom(s, i + 1, Append(cur, s[i]), acc)

\* the lines of a written string, each ended by a newline
PhysicalLines(s) == PhysicalLinesFrom(s, 1, << >>, << >>)

\* the number of leading spaces of a string
LeadingBlanks(s) ==
  Cardinality({i \in 1..Len(s) : \A j \in 1..i : s[j] = " "})

\* the number of words of a line
WordCount(line) ==
  Cardinality({i \in 1..Len(line) :
                 line[i] # " " /\ (i = 1 \/ line[i - 1] = " ")})

\* C5: word-wrap is idempotent: indented_string at indent 0, applied to its own
\* output at the same width, gives that output again.
C5_WrapIdempotent ==
  op = "indented_string" /\ arg.calls = 2 /\ arg.indent = 0 => text = prev

\* C6: non-ASCII folding is stable: unicode_to_entities applied to its own output
\* gives that output again.
C6_FoldingStable ==
  op = "unicode_to_entities" /\ arg.calls = 2 => text = prev

\* C8: every line indented_string emits that holds more than one word is, with
\* its prefix of indent spaces, shorter than full_width.
C8_LineWithinWidth ==
  op = "indented_string" /\ arg.calls = 1 =>
    \A k \in 1..Len(PhysicalLines(text)) :
      WordCount(PhysicalLines(text)[k]) > 1 =>
        Len(PhysicalLines(text)[k]) < arg.full_width

\* C10: no line written for a text or comment leaf has '-', '%' or '#' as its
\* first character after the leading spaces.
C10_NoReservedLineStart ==
  op = "print_elem" /\ pc = "done" /\ tree = NoTree =>
    \A w \in 1..Len(stream) :
      \A k \in 1..Len(PhysicalLines(stream[w])) :
        LET line == PhysicalLines(stream[w])[k]
            b == LeadingBlanks(line)
        IN  b < Len(line) => line[b + 1] \notin {"-", "%", "#"}

(***************************************************************************)
(* The properties of the tree walker.                                      *)
(***************************************************************************)
Depth(i) == Cardinality(Ancestors(tree.parent, i))

RECURSIVE PreList(_)
\* the nodes under the list ns of siblings, depth-first, each before its children
PreList(ns) ==
  IF ns = << >> THEN << >>
  ELSE <<Head(ns)>> \o PreList(Children(tree, Head(ns))) \o PreList(Tail(ns))

\* node i wrote: exactly one string, a line at 2 * depth spaces
OneTagLine(i) ==
  /\ Cardinality({k \in 1..Len(writer) : writer[k] = i}) = 1
  /\ LeadingBlanks(stream[IndexOf(writer, i)]) = 2 * Depth(i)

\* what has been written so far is in document order and at the depth of its node
InDocumentOrder ==
  LET pre == PreList(<<1>>)
      rank == [i \in 1..tree.n |-> IndexOf(pre, i)]
      written == {writer[k] : k \in 1..Len(writer)}
  IN  /\ \A k \in 1..(Len(writer) - 1) : rank[writer[k]] < rank[writer[k + 1]]
      /\ \A k \in 1..Len(writer) :
           /\ tree.label[writer[k]].tag => OneTagLine(writer[k])
           /\ \A l \in 1..Len(PhysicalLines(stream[k])) :
                StartsWith(PhysicalLines(stream[k])[l], Spaces(2 * Depth(writer[k])))
           /\ \A j \in 1..tree.n :
                tree.label[j].tag /\ rank[j] < rank[writer[k]] => j \in written
      /\ \A f \in 1..Len(stack) :
           /\ stack[f].indent = 2 * Depth(stack[f].node)
           /\ f < Len(stack) => tree.label[stack[f].node].tag
           /\ f < Len(stack) =>
                stack[f + 1].node = Children(tree, stack[f].node)[stack[f].i - 1]
           /\ tree.label[stack[f].node].tag => stack[f].node \in written

\* C3 as stated: for every tree the walk writes, for every element at depth d,
\* exactly one tag line at 2*d spaces, before its descendants' output, the
\* children in order at depth d+1, and a leaf never recurses.
C3_AsStated ==
  tree # NoTree /\ pc \in {"done", "error"} =>
    InDocumentOrder /\ \A i \in 1..tree.n : tree.label[i].tag => OneTagLine(i)

\* C3, amended: the walk writes in document order: at every moment each element
\* reached so far has written exactly one tag line, at exactly 2*d spaces for
\* depth d and before any output of its descendants, the children follow in
\* child order at depth d+1 and a text or comment leaf never recurses; when the
\* walk completes (no element raised a fatal error) every element of the tree
\* has its line.
C3_WalkInDocumentOrder ==
  tree # NoTree =>
    /\ InDocumentOrder
    /\ pc = "done" => \A i \in 1..tree.n : tree.label[i].tag => OneTagLine(i)

\* a completed walk of a tree with a grandchild followed by a later child of the
\* root, every node of which wrote
C3_Witness ==
  /\ tree # NoTree /\ pc = "done"
  /\ \E i, j \in 1..tree.n : i < j /\ Depth(i) = 2 /\ Depth(j) = 1
  /\ Len(stream) = tree.n
  /\ \E i \in 1..tree.n : ~tree.label[i].tag

====
